---- MODULE Spec2Model ----
(***************************************************************************)
(* Double-buffered checkpoint format and recovery of                       *)
(* crates/nockapp/src/kernel/checkpoint.rs: the checksum, the bincode      *)
(* record layout, JamPaths::decode_jam, JamPaths::load_checkpoint and      *)
(* Checkpoint::load.                                                       *)
(***************************************************************************)
EXTENDS Integers, Sequences, FiniteSets, TLC

\* Largest event number the writer and the slot files use.
MaxEvent == 3

\* Width in bytes of a blake3 digest.
OUT_LEN == 32

(***************************************************************************)
(* Bytes and fixed-width integers                                          *)
(***************************************************************************)
RECURSIVE to_le_bytes(_, _)
\* n.to_le_bytes() for an integer of w bytes
to_le_bytes(n, w) ==
    IF w = 0 THEN <<>> ELSE <<n % 256>> \o to_le_bytes(n \div 256, w - 1)

RECURSIVE from_le_bytes(_)
\* the integer a little-endian byte string stands for
from_le_bytes(bs) ==
    IF bs = <<>> THEN 0 ELSE bs[1] + 256 * from_le_bytes(Tail(bs))

RECURSIVE Zeros(_)
Zeros(n) == IF n <= 0 THEN <<>> ELSE <<0>> \o Zeros(n - 1)

AllZero(bs, from) == \A i \in from..Len(bs) : bs[i] = 0

\* tas!(b"..."): the bytes of the tag as a little-endian u64
tas(tag) == tag \o Zeros(8 - Len(tag))

CHKJAM == tas(<<67, 72, 75, 74, 65, 77>>)
EXPJAM == tas(<<69, 88, 80, 74, 65, 77>>)

(***************************************************************************)
(* Checksum                                                                *)
(***************************************************************************)
\* blake3 over the bytes fed to the hasher.  The digest is OUT_LEN bytes and
\* the function is injective on inputs shorter than OUT_LEN bytes (the input,
\* a 0x80 terminator, zero padding), which stands for collision-freedom.
Blake3(input) == input \o <<128>> \o Zeros(OUT_LEN - Len(input) - 1)

\* checksum that leaves the event number out of the digest
checksum_no_event(event_num, jam) ==
    LET u2 == to_le_bytes(Len(jam), 8)
        u3 == u2 \o jam
    IN Blake3(u3)

\* JammedCheckpoint::checksum: the event number, the payload length (a usize,
\* 8 bytes on the 64-bit targets) and the payload, in that order
checksum(event_num, jam) ==
    LET u1 == to_le_bytes(event_num, 8)
        u2 == u1 \o to_le_bytes(Len(jam), 8)
        u3 == u2 \o jam
    IN Blake3(u3)

\* JammedCheckpoint::new
JammedCheckpoint_new(version, buff_index, ker_hash, event_num, jam) ==
    [magic_bytes |-> CHKJAM,
     version     |-> version,
     buff_index  |-> buff_index,
     ker_hash    |-> ker_hash,
     checksum    |-> checksum(event_num, jam),
     event_num   |-> event_num,
     jam         |-> jam]

\* JammedCheckpoint::validate
validate(self) == self.checksum = checksum(self.event_num, self.jam)

\* ExportedState::new, with the jammed kernel state given
ExportedState_new(version, ker_hash, event_num, jam) ==
    [magic_bytes |-> EXPJAM,
     version     |-> version,
     ker_hash    |-> ker_hash,
     event_num   |-> event_num,
     jam         |-> jam]

(***************************************************************************)
(* bincode, standard configuration: little-endian, variable-length ints    *)
(***************************************************************************)
\* varint whose single-byte range is one value too wide
VarintEncode_wide(le) ==
    IF AllZero(le, 2) /\ le[1] <= 251 THEN <<le[1]>>
    ELSE IF AllZero(le, 3) THEN <<251>> \o SubSeq(le, 1, 2)
    ELSE IF AllZero(le, 5) THEN <<252>> \o SubSeq(le, 1, 4)
    ELSE <<253>> \o SubSeq(le, 1, 8)

\* varint of an unsigned integer given as its little-endian bytes
VarintEncode(le) ==
    IF AllZero(le, 2) /\ le[1] <= 250 THEN <<le[1]>>
    ELSE IF AllZero(le, 3) THEN <<251>> \o SubSeq(le, 1, 2)
    ELSE IF AllZero(le, 5) THEN <<252>> \o SubSeq(le, 1, 4)
    ELSE <<253>> \o SubSeq(le, 1, 8)

EncodeBool(b) == IF b THEN <<1>> ELSE <<0>>

\* a byte string: its length as a varint u64, then the bytes
EncodeBytes(bs) == VarintEncode(to_le_bytes(Len(bs), 8)) \o bs

\* JammedCheckpoint::encode, fields in declaration order
JammedCheckpoint_encode(self) ==
    VarintEncode(self.magic_bytes)
        \o VarintEncode(to_le_bytes(self.version, 4) \o Zeros(4))
        \o EncodeBool(self.buff_index)
        \o self.ker_hash
        \o self.checksum
        \o VarintEncode(to_le_bytes(self.event_num, 8))
        \o EncodeBytes(self.jam)

\* ExportedState::encode, fields in declaration order
ExportedState_encode(self) ==
    VarintEncode(self.magic_bytes)
        \o VarintEncode(to_le_bytes(self.version, 4) \o Zeros(4))
        \o self.ker_hash
        \o VarintEncode(to_le_bytes(self.event_num, 8))
        \o EncodeBytes(self.jam)

\* Decoders return [err, val, rest]: err is "" on success.
DecOk(v, rest) == [err |-> "", val |-> v, rest |-> rest]
DecErr(kind) == [err |-> kind, val |-> <<>>, rest |-> <<>>]

\* take n raw bytes
DecodeRaw(bs, n) ==
    IF Len(bs) < n THEN DecErr("UnexpectedEnd")
    ELSE DecOk(SubSeq(bs, 1, n), SubSeq(bs, n + 1, Len(bs)))

\* varint of an unsigned integer of w bytes; the value as 8 little-endian bytes
VarintDecode(bs, w) ==
    IF bs = <<>> THEN DecErr("UnexpectedEnd")
    ELSE LET tag  == bs[1]
             body == Tail(bs)
             n    == IF tag = 251 THEN 2 ELSE IF tag = 252 THEN 4 ELSE 8
         IN IF tag <= 250 THEN DecOk(<<tag>> \o Zeros(7), body)
            ELSE IF tag >= 254 \/ n > w THEN DecErr("InvalidIntegerType")
            ELSE IF Len(body) < n THEN DecErr("UnexpectedEnd")
            ELSE DecOk(SubSeq(body, 1, n) \o Zeros(8 - n),
                       SubSeq(body, n + 1, Len(body)))

DecodeBool(bs) ==
    IF bs = <<>> THEN DecErr("UnexpectedEnd")
    ELSE IF bs[1] = 0 THEN DecOk(FALSE, Tail(bs))
    ELSE IF bs[1] = 1 THEN DecOk(TRUE, Tail(bs))
    ELSE DecErr("InvalidBooleanValue")

DecodeBytes(bs) ==
    LET l == VarintDecode(bs, 8)
    IN IF l.err # "" THEN l
       ELSE IF ~AllZero(l.val, 4) THEN DecErr("UnexpectedEnd")
       ELSE DecodeRaw(l.rest, from_le_bytes(l.val))

\* one field of a record, by its declared type; integers that the program
\* compares or counts with are returned as numbers, the magic as its bytes
DecodeField(type, bs) ==
    CASE type = "u64" ->
           LET d == VarintDecode(bs, 8)
           IN IF d.err # "" THEN d ELSE DecOk(from_le_bytes(d.val), d.rest)
      [] type = "u32" ->
           LET d == VarintDecode(bs, 4)
           IN IF d.err # "" THEN d ELSE DecOk(from_le_bytes(d.val), d.rest)
      [] type = "tas" -> VarintDecode(bs, 8)
      [] type = "bool" -> DecodeBool(bs)
      [] type = "Hash" -> DecodeRaw(bs, OUT_LEN)
      [] type = "JammedNoun" -> DecodeBytes(bs)

RECURSIVE DecodeStruct(_, _, _)
\* derive(Decode): the fields one after the other, the first error ends it
DecodeStruct(fields, bs, acc) ==
    IF fields = <<>> THEN DecOk(acc, bs)
    ELSE LET d == DecodeField(fields[1][2], bs)
         IN IF d.err # "" THEN d
            ELSE DecodeStruct(Tail(fields), d.rest,
                              acc @@ (fields[1][1] :> d.val))

\* struct JammedCheckpoint: field names and types in declaration order
JammedCheckpointFields ==
    << <<"magic_bytes", "tas">>, <<"version", "u32">>,
       <<"buff_index", "bool">>, <<"ker_hash", "Hash">>,
       <<"checksum", "Hash">>, <<"event_num", "u64">>,
       <<"jam", "JammedNoun">> >>

\* struct ExportedState: field names and types in declaration order
ExportedStateFields ==
    << <<"magic_bytes", "tas">>, <<"version", "u32">>,
       <<"ker_hash", "Hash">>, <<"event_num", "u64">>,
       <<"jam", "JammedNoun">> >>

\* bincode::decode_from_slice::<JammedCheckpoint>; bytes after the record
\* are left unread
JammedCheckpoint_decode(bs) == DecodeStruct(JammedCheckpointFields, bs, <<>>)

\* bincode::decode_from_slice::<ExportedState>
ExportedState_decode(bs) == DecodeStruct(ExportedStateFields, bs, <<>>)

(***************************************************************************)
(* Results and errors                                                      *)
(***************************************************************************)
Ok(v) == [ok |-> TRUE, val |-> v]
Err(e) == [ok |-> FALSE, err |-> e]

\* CheckpointError variants
IOError(d) == [kind |-> "IOError", detail |-> d]
DecodeError(d) == [kind |-> "DecodeError", detail |-> d]
InvalidChecksum(path) == [kind |-> "InvalidChecksum", detail |-> path]
SwordNounError == [kind |-> "SwordNounError", detail |-> "NotCell"]
FromNounError == [kind |-> "FromNounError", detail |-> "cold"]
SwordInterpreterError == [kind |-> "SwordInterpreterError", detail |-> ""]
BothCheckpointsFailed(e1, e2) ==
    [kind |-> "BothCheckpointsFailed", detail |-> <<e1, e2>>]

(***************************************************************************)
(* The state codec and the cold state, seen through their results          *)
(***************************************************************************)
\* Noun::cue_bytes: the leading tag bits of the jam say what the root is
\* (0: atom, 01: cell, 11: back reference, which has nothing to refer to).
cue_bytes(jam) ==
    IF jam = <<>> THEN "atom"
    ELSE IF jam[1] % 2 = 0 THEN "atom"
    ELSE IF jam[1] % 4 = 1 THEN "cell"
    ELSE "error"

\* Cold::from_noun on the tail of the cell: whether it has the cold shape
Cold_from_noun(jam) == (jam[1] \div 4) % 2 = 0

\* Checkpoint::load
Checkpoint_load(jam) ==
    IF cue_bytes(jam.jam) = "error" THEN Err(SwordInterpreterError)
    ELSE IF cue_bytes(jam.jam) # "cell" THEN Err(SwordNounError)
    ELSE IF ~Cold_from_noun(jam.jam) THEN Err(FromNounError)
    ELSE Ok([magic_bytes |-> jam.magic_bytes,
             version     |-> jam.version,
             buff_index  |-> jam.buff_index,
             ker_hash    |-> jam.ker_hash,
             event_num   |-> jam.event_num,
             ker_state   |-> <<"head", jam.jam>>,
             cold        |-> <<"tail", jam.jam>>])

(***************************************************************************)
(* The two slots                                                           *)
(***************************************************************************)
\* JamPaths::new: the pair (self.0, self.1)
JamPaths_new == <<"0.chkjam", "1.chkjam">>

Paths == {JamPaths_new[1], JamPaths_new[2]}

NoFile == [exists |-> FALSE, bytes |-> <<>>]
File(bs) == [exists |-> TRUE, bytes |-> bs]

\* std::fs::read
fs_read(fs, path) ==
    IF fs[path].exists THEN Ok(fs[path].bytes) ELSE Err(IOError("NotFound"))

\* the checksum test left out
validated_unchecked(dec, jam_path) ==
    IF dec.err # "" THEN Err(DecodeError(dec.err))
    ELSE Ok(dec.val)

\* decode_jam once the file is decoded: the checksum test
validated(dec, jam_path) ==
    IF dec.err # "" THEN Err(DecodeError(dec.err))
    ELSE IF validate(dec.val) THEN Ok(dec.val)
    ELSE Err(InvalidChecksum(jam_path))

\* decode_jam once the file is read
decoded_file(jam, jam_path) ==
    IF ~jam.ok THEN jam
    ELSE validated(JammedCheckpoint_decode(jam.val), jam_path)

\* JamPaths::decode_jam
decode_jam(fs, jam_path) == decoded_file(fs_read(fs, jam_path), jam_path)

\* the comparison turned around
choose_slot_lt(a, b) == IF a.event_num < b.event_num THEN 1 ELSE 2

\* the comparison made non-strict
choose_slot_ge(a, b) == IF a.event_num >= b.event_num THEN 1 ELSE 2

\* load_checkpoint, arm (Ok(a), Ok(b)): the slot whose record is chosen
choose_slot(a, b) == IF a.event_num > b.event_num THEN 1 ELSE 2

\* the failed slot's error returned instead of loading the good slot
one_slot_propagate(c, e) ==
    [log |-> <<[level |-> "warn", at |-> "", what |-> e]>>,
     ret |-> Err(e)]

\* load_checkpoint, arm (Ok(c), Err(e)) | (Err(e), Ok(c))
one_slot(c, e) ==
    [log |-> <<[level |-> "warn", at |-> "", what |-> e],
               [level |-> "debug", at |-> "", what |-> c.checksum]>>,
     ret |-> Checkpoint_load(c)]

\* the two causes boxed in the wrong order
no_slot_swapped(e1, e2) ==
    [log |-> <<[level |-> "error", at |-> "", what |-> e1],
               [level |-> "error", at |-> "", what |-> e2]>>,
     ret |-> Err(BothCheckpointsFailed(e2, e1))]

\* load_checkpoint, arm (Err(e1), Err(e2))
no_slot(e1, e2) ==
    [log |-> <<[level |-> "error", at |-> "", what |-> e1],
               [level |-> "error", at |-> "", what |-> e2]>>,
     ret |-> Err(BothCheckpointsFailed(e1, e2))]

\* load_checkpoint: the match on (chk_0, chk_1)
match_slots(self, chk_0, chk_1) ==
    IF chk_0.ok /\ chk_1.ok THEN
        IF choose_slot(chk_0.val, chk_1.val) = 1
        THEN [log |-> <<[level |-> "debug", at |-> self[1],
                         what |-> chk_0.val.checksum]>>,
              ret |-> Checkpoint_load(chk_0.val)]
        ELSE [log |-> <<[level |-> "debug", at |-> self[2],
                         what |-> chk_1.val.checksum]>>,
              ret |-> Checkpoint_load(chk_1.val)]
    ELSE IF chk_0.ok THEN one_slot(chk_0.val, chk_1.err)
    ELSE IF chk_1.ok THEN one_slot(chk_1.val, chk_0.err)
    ELSE no_slot(chk_0.err, chk_1.err)

\* the call as the caller sees it: the decoded slots, the log, the result
Loaded(chk_0, chk_1, arm) ==
    [called |-> TRUE, chk |-> <<chk_0, chk_1>>,
     log |-> arm.log, ret |-> arm.ret]

\* load_checkpoint after the two slots are decoded
load_slots(self, chk_0, chk_1) ==
    Loaded(chk_0, chk_1, match_slots(self, chk_0, chk_1))

\* JamPaths::load_checkpoint
load_checkpoint(fs) ==
    load_slots(JamPaths_new, decode_jam(fs, JamPaths_new[1]),
               decode_jam(fs, JamPaths_new[2]))

(***************************************************************************)
(* State                                                                   *)
(***************************************************************************)
VARIABLES
    files,   \* the persistence directory: path -> file
    loaded,  \* the last call of load_checkpoint since the files changed
    wr,      \* the writer: last completed checkpoint and its slot
    codec    \* the last use of the record codec

vars == <<files, loaded, wr, codec>>

NotLoaded == [called |-> FALSE]
NoWrite == [last_good |-> 0, event_num |-> 0]
Idle == [op |-> "idle"]

\* hash of the boot kernel
KerHash == Blake3(<<75>>)

\* payloads: cells with a cold state, a cell without, an atom, a bad jam
GoodJams == {<<1>>, <<1, 9>>}
Jams == GoodJams \cup {<<5>>, <<0>>, <<3>>}

Events == 1..MaxEvent

\* a stored digest that differs from d in one bit
FlipBit(d) == [d EXCEPT ![1] = IF d[1] % 2 = 0 THEN d[1] + 1 ELSE d[1] - 1]

\* what a slot file may hold when the program starts
SlotRecords ==
    {[JammedCheckpoint_new(0, b, KerHash, e, j) EXCEPT
         !.magic_bytes = m,
         !.checksum = IF good THEN @ ELSE FlipBit(@)] :
       b \in BOOLEAN, e \in Events, j \in Jams,
       m \in {CHKJAM, EXPJAM}, good \in BOOLEAN}

BrokenFiles ==
    LET bs == JammedCheckpoint_encode(
                  JammedCheckpoint_new(0, FALSE, KerHash, 1, <<1>>))
    IN {NoFile, File(<<>>), File(SubSeq(bs, 1, Len(bs) - 1)),
        File(SubSeq(bs, 1, 20)), File([bs EXCEPT ![11] = 2]),
        File(ExportedState_encode(ExportedState_new(0, KerHash, 1, <<1>>)))}

SlotContents ==
    {File(JammedCheckpoint_encode(r)) : r \in SlotRecords} \cup BrokenFiles

(***************************************************************************)
(* Recovery over whatever the directory holds                              *)
(***************************************************************************)
Init ==
    /\ files \in [Paths -> SlotContents]
    /\ loaded = NotLoaded
    /\ wr = NoWrite
    /\ codec = Idle

\* the runtime calls JamPaths::load_checkpoint
LoadCheckpoint ==
    /\ ~loaded.called
    /\ loaded' = load_checkpoint(files)
    /\ UNCHANGED <<files, wr, codec>>

Next == LoadCheckpoint

Spec == Init /\ [][Next]_vars

(***************************************************************************)
(* Properties of recovery                                                  *)
(***************************************************************************)
BothUsable == loaded.called /\ loaded.chk[1].ok /\ loaded.chk[2].ok
NoneUsable == loaded.called /\ ~loaded.chk[1].ok /\ ~loaded.chk[2].ok
OnlyUsable(i) == loaded.called /\ loaded.chk[i].ok /\ ~loaded.chk[3 - i].ok

\* C1: when both slots decode and validate with different event numbers, the
\* record with the strictly greater event number is the one materialized
\* (and the one logged as loaded), whichever slot holds it.
C1_GreaterEventSelected ==
    BothUsable =>
        \A i \in {1, 2} :
            loaded.chk[i].val.event_num > loaded.chk[3 - i].val.event_num =>
                /\ loaded.ret = Checkpoint_load(loaded.chk[i].val)
                /\ loaded.log[1].at = JamPaths_new[i]

\* slot 0 holds the greater event number and a record that differs from slot 1's
C1_Witness ==
    /\ BothUsable
    /\ loaded.chk[1].val.event_num > loaded.chk[2].val.event_num
    /\ loaded.chk[1].val.jam # loaded.chk[2].val.jam
    /\ loaded.ret.ok
    /\ loaded.ret.val.event_num = loaded.chk[1].val.event_num

\* C3: when exactly one slot is usable its record is the one handed to
\* Checkpoint::load, whichever slot it is and whatever its event number; the
\* other slot's error is logged as a warning and is not the result.
C3_OnlyUsableSlotSelected ==
    \A i \in {1, 2} :
        OnlyUsable(i) =>
            /\ loaded.ret = Checkpoint_load(loaded.chk[i].val)
            /\ loaded.log[1] = [level |-> "warn", at |-> "",
                                what |-> loaded.chk[3 - i].err]
            /\ \A k \in 1..Len(loaded.log) : loaded.log[k].level # "error"
            /\ ~loaded.ret.ok => loaded.ret.err # loaded.chk[3 - i].err

\* slot 0 fails its checksum, slot 1 alone is usable and is loaded
C3_Witness ==
    /\ OnlyUsable(2)
    /\ loaded.chk[1].err = InvalidChecksum(JamPaths_new[1])
    /\ loaded.ret.ok
    /\ loaded.ret.val.event_num = MaxEvent

\* C4: when neither slot is usable the result is BothCheckpointsFailed with
\* slot 0's error first and slot 1's error second, each as decode_jam gave it.
C4_BothFailedCarriesBoth ==
    NoneUsable =>
        /\ ~loaded.ret.ok
        /\ loaded.ret.err.kind = "BothCheckpointsFailed"
        /\ loaded.ret.err.detail[1] = decode_jam(files, JamPaths_new[1]).err
        /\ loaded.ret.err.detail[2] = decode_jam(files, JamPaths_new[2]).err

\* slot 0 is missing and slot 1 fails its checksum
C4_Witness ==
    /\ NoneUsable
    /\ loaded.chk[1].err = IOError("NotFound")
    /\ loaded.chk[2].err = InvalidChecksum(JamPaths_new[2])
    /\ ~loaded.ret.ok

\* C5: a failure confined to one slot is never the result: whenever some slot
\* holds a valid record that Checkpoint::load accepts, load_checkpoint returns
\* a checkpoint (the other slot is tried when the selected record fails to
\* load).
C5_SingleSlotFailureNotSurfaced ==
    loaded.called =>
        ((\E i \in {1, 2} : /\ loaded.chk[i].ok
                            /\ Checkpoint_load(loaded.chk[i].val).ok)
            => loaded.ret.ok)

\* C6 as stated: with equal event numbers in two valid slots, slot 0 (the
\* 0.chkjam file) is the one chosen.
C6_TieSelectsSlot0 ==
    (BothUsable /\ loaded.chk[1].val.event_num = loaded.chk[2].val.event_num)
        => /\ loaded.ret = Checkpoint_load(loaded.chk[1].val)
           /\ loaded.log[1].at = JamPaths_new[1]

\* C6 amended: with equal event numbers in two valid slots the choice is
\* deterministic and is slot 1 (the 1.chkjam file).
C6_TieSelectsSlot1 ==
    (BothUsable /\ loaded.chk[1].val.event_num = loaded.chk[2].val.event_num)
        => /\ loaded.ret = Checkpoint_load(loaded.chk[2].val)
           /\ loaded.log[1].at = JamPaths_new[2]

\* two valid slots with the same event number and different payloads
C6_Witness ==
    /\ BothUsable
    /\ loaded.chk[1].val.event_num = loaded.chk[2].val.event_num
    /\ loaded.chk[1].val.jam # loaded.chk[2].val.jam
    /\ loaded.ret.ok
    /\ loaded.ret.val.ker_state = <<"head", loaded.chk[2].val.jam>>

\* C7: a slot whose record carries a magic other than CHKJAM is a failed slot,
\* and no such record is materialized.
C7_ForeignMagicRejected ==
    loaded.called =>
        /\ \A i \in {1, 2} :
              loaded.chk[i].ok => loaded.chk[i].val.magic_bytes = CHKJAM
        /\ loaded.ret.ok => loaded.ret.val.magic_bytes = CHKJAM

\* C10: the buff_index of a returned checkpoint names the slot it was read
\* from: false for the 0.chkjam path, true for the 1.chkjam path.
C10_BuffIndexIsSlot ==
    (loaded.called /\ loaded.ret.ok) =>
        \E i \in {1, 2} :
            /\ loaded.chk[i].ok
            /\ loaded.ret = Checkpoint_load(loaded.chk[i].val)
            /\ loaded.ret.val.buff_index = (i = 2)

(***************************************************************************)
(* The writer's alternation discipline                                     *)
(***************************************************************************)
\* slots the next checkpoint may go to: not the one holding the last
\* completed checkpoint
WriteTargets == IF wr.last_good = 0 THEN {1, 2} ELSE {3 - wr.last_good}

\* where the checksum field starts in the encoding of rec
ChecksumOffset(rec) ==
    Len(VarintEncode(rec.magic_bytes))
        + Len(VarintEncode(to_le_bytes(rec.version, 4) \o Zeros(4)))
        + Len(EncodeBool(rec.buff_index)) + Len(rec.ker_hash)

\* what a crash in the middle of writing rec can leave in the slot: no file,
\* a proper prefix (cut at the start, inside the magic, before the checksum,
\* after it, inside the payload), or all the bytes with one byte of the
\* checksummed part (checksum, event number, payload) not the one written
CrashLeavings(rec) ==
    LET bs  == JammedCheckpoint_encode(rec)
        off == ChecksumOffset(rec)
    IN {NoFile}
         \cup {File(SubSeq(bs, 1, n)) :
                  n \in {0, 1, off, off + OUT_LEN, Len(bs) - 1}}
         \cup {File([bs EXCEPT ![i] = (@ + 1) % 256]) :
                  i \in {off + 1, off + OUT_LEN + 1, Len(bs)}}

WriterInit ==
    /\ files = [p \in Paths |-> NoFile]
    /\ loaded = NotLoaded
    /\ wr = NoWrite
    /\ codec = Idle

\* a checkpoint with a larger event number is written to the other slot and
\* the write completes
SaveCheckpoint ==
    \E t \in WriteTargets, e \in Events, j \in GoodJams :
        /\ e > wr.event_num
        /\ LET rec == JammedCheckpoint_new(0, t = 2, KerHash, e, j)
           IN /\ files' = [files EXCEPT
                              ![JamPaths_new[t]] =
                                  File(JammedCheckpoint_encode(rec))]
              /\ wr' = [last_good |-> t, event_num |-> e, rec |-> rec]
        /\ loaded' = NotLoaded
        /\ UNCHANGED codec

\* the writer crashes while writing the other slot
CrashDuringSave ==
    \E t \in WriteTargets, e \in Events, j \in GoodJams :
        /\ e > wr.event_num
        /\ \E left \in CrashLeavings(
                          JammedCheckpoint_new(0, t = 2, KerHash, e, j)) :
              files' = [files EXCEPT ![JamPaths_new[t]] = left]
        /\ loaded' = NotLoaded
        /\ UNCHANGED <<wr, codec>>

WriterNext == SaveCheckpoint \/ CrashDuringSave \/ LoadCheckpoint

WriterSpec == WriterInit /\ [][WriterNext]_vars

\* C2: under the alternation discipline, once a write has completed,
\* load_checkpoint selects the record of the most recently completed write,
\* whatever crashes left in the other slot; and it reports
\* BothCheckpointsFailed only when both slots are unusable.
C2_RecoversLastCompletedWrite ==
    loaded.called =>
        /\ wr.last_good # 0 =>
              /\ loaded.chk[wr.last_good] = Ok(wr.rec)
              /\ loaded.ret = Checkpoint_load(wr.rec)
              /\ loaded.ret.ok
              /\ loaded.ret.val.event_num = wr.event_num
        /\ ~loaded.ret.ok =>
              /\ wr.last_good = 0
              /\ ~loaded.chk[1].ok /\ ~loaded.chk[2].ok

\* the last completed checkpoint is in slot 0, slot 1 still holds the older
\* checkpoint, and recovery returns the newer one
C2_WitnessBothValid ==
    /\ loaded.called
    /\ wr.last_good = 1
    /\ loaded.chk[2].ok
    /\ loaded.chk[2].val.event_num < wr.event_num
    /\ loaded.ret.ok
    /\ loaded.ret.val.event_num = wr.event_num

\* the last completed checkpoint is in slot 1 and a crash left slot 0 with
\* a bad checksum
C2_Witness ==
    /\ loaded.called
    /\ wr.last_good = 2
    /\ loaded.chk[1] = Err(InvalidChecksum(JamPaths_new[1]))
    /\ loaded.ret.ok

(***************************************************************************)
(* The record codec on its own                                             *)
(***************************************************************************)
\* integers on both sides of every varint width boundary
CodecEvents == Events \cup {0, 250, 251, 65535, 65536}
CodecVersions == {0, 1, 251}
CodecJams == Jams \cup {<<>>}
CodecMagics == {CHKJAM, EXPJAM, tas(<<1>>), tas(<<255, 255, 255, 255>>)}

CodecCheckpoints ==
    {[JammedCheckpoint_new(v, b, KerHash, e, j) EXCEPT
         !.magic_bytes = m,
         !.checksum = IF good THEN @ ELSE FlipBit(@)] :
       v \in CodecVersions, b \in BOOLEAN, e \in CodecEvents,
       j \in CodecJams, m \in CodecMagics, good \in BOOLEAN}

CodecExports ==
    {[ExportedState_new(v, KerHash, e, j) EXCEPT !.magic_bytes = m] :
       v \in CodecVersions, e \in CodecEvents, j \in CodecJams,
       m \in CodecMagics}

CodecInit ==
    /\ files = [p \in Paths |-> NoFile]
    /\ loaded = NotLoaded
    /\ wr = NoWrite
    /\ codec = Idle

\* the record is put in slot 0, as encoded, and decode_jam is run on it
StoreAndDecode(op, rec) ==
    /\ files' = [files EXCEPT
                    ![JamPaths_new[1]] = File(JammedCheckpoint_encode(rec))]
    /\ codec' = [op |-> op, rec |-> rec, valid |-> validate(rec),
                 decoded |-> decode_jam(files', JamPaths_new[1])]
    /\ UNCHANGED <<loaded, wr>>

\* JammedCheckpoint::new, then validate and decode_jam on the result
NewCheckpoint ==
    /\ codec.op = "idle"
    /\ \E v \in CodecVersions, b \in BOOLEAN, e \in CodecEvents,
          j \in CodecJams :
          StoreAndDecode("new", JammedCheckpoint_new(v, b, KerHash, e, j))

\* the payload, the event number or the stored checksum of the record built
\* by new is changed, then validate and decode_jam
TamperCheckpoint ==
    /\ codec.op = "new"
    /\ \/ \E j \in CodecJams \ {codec.rec.jam} :
             StoreAndDecode("tamper", [codec.rec EXCEPT !.jam = j])
       \/ \E e \in CodecEvents \ {codec.rec.event_num} :
             StoreAndDecode("tamper", [codec.rec EXCEPT !.event_num = e])
       \/ \E c \in ({FlipBit(codec.rec.checksum), Zeros(OUT_LEN)}
                      \cup {checksum(e, j) :
                              e \in CodecEvents, j \in CodecJams})
                     \ {codec.rec.checksum} :
             StoreAndDecode("tamper", [codec.rec EXCEPT !.checksum = c])

\* JammedCheckpoint::encode, then bincode::decode_from_slice
EncodeDecodeCheckpoint ==
    /\ codec.op = "idle"
    /\ \E rec \in CodecCheckpoints :
          codec' = [op |-> "roundtrip", rec |-> rec,
                    decoded |->
                        JammedCheckpoint_decode(JammedCheckpoint_encode(rec))]
    /\ UNCHANGED <<files, loaded, wr>>

\* ExportedState::encode, then bincode::decode_from_slice
EncodeDecodeExport ==
    /\ codec.op = "idle"
    /\ \E rec \in CodecExports :
          codec' = [op |-> "roundtrip", rec |-> rec,
                    decoded |->
                        ExportedState_decode(ExportedState_encode(rec))]
    /\ UNCHANGED <<files, loaded, wr>>

CodecNext ==
    \/ NewCheckpoint
    \/ TamperCheckpoint
    \/ EncodeDecodeCheckpoint
    \/ EncodeDecodeExport

CodecSpec == CodecInit /\ [][CodecNext]_vars

\* C8: the record built by JammedCheckpoint::new validates and decode_jam
\* returns it; after its payload, event number or stored checksum is changed,
\* validate is false and decode_jam returns InvalidChecksum for the path.
C8_ChecksumDetectsChange ==
    /\ codec.op = "new" =>
          codec.valid /\ codec.decoded = Ok(codec.rec)
    /\ codec.op = "tamper" =>
          /\ ~codec.valid
          /\ codec.decoded = Err(InvalidChecksum(JamPaths_new[1]))

\* only the event number of a valid record was changed, and it is rejected
C8_Witness ==
    /\ codec.op = "tamper"
    /\ codec.rec.event_num = 251
    /\ codec.rec.jam = <<1, 9>>
    /\ codec.rec.checksum = checksum(250, <<1, 9>>)
    /\ ~codec.decoded.ok

\* C9: decoding the bytes encode() produced gives back the record, field for
\* field, with no byte left over, for checkpoint and export records alike.
C9_RoundTrip ==
    codec.op = "roundtrip" =>
        /\ codec.decoded.err = ""
        /\ codec.decoded.val = codec.rec
        /\ codec.decoded.rest = <<>>

\* an export record with a two-byte event number and a four-byte magic
C9_Witness ==
    /\ codec.op = "roundtrip"
    /\ codec.rec.magic_bytes = tas(<<255, 255, 255, 255>>)
    /\ codec.rec.event_num = 65535
    /\ DOMAIN codec.rec = {"magic_bytes", "version", "ker_hash",
                           "event_num", "jam"}
    /\ codec.decoded.err = ""

====
